---- MODULE Spec2Model ----
(***************************************************************************)
(* The client-side authentication state container of AccessManagerPro     *)
(* (src/src/App.tsx, the AuthContext part): the reducer, the session      *)
(* synchronizer subscribed to the identity provider, and the operations   *)
(* login, register, logout and updateUser.  The identity provider and the *)
(* profile store are external: each of their calls is a step whose        *)
(* outcome is chosen nondeterministically among the outcomes the calling  *)
(* code distinguishes.  A provider call that changes the session does so, *)
(* emits its notification and returns in one step; the notification is    *)
(* handled in a later step, and the handler's profile select returns in   *)
(* a step of its own.  A failing signOut is one whose promise rejects,    *)
(* the only failure the code's try blocks observe.  After the provider    *)
(* component unmounts nothing further is modelled.                         *)
(***************************************************************************)
EXTENDS Integers, Sequences, FiniteSets, TLC

(* ------------------------------ bounds -------------------------------- *)

\* Calls of login, register and logout made in one run.
MaxCalls == 2
\* Session-change notifications emitted and not yet handled.
MaxQueued == 1
\* Handlers suspended at their profile fetch.
MaxFetching == 1

\* The identities: a@x.com, signed up with a profile row before this client
\* started, and b@x.com, unknown to the provider at the start.
Ids == {1, 2}
Calls == 1..MaxCalls

(* ------------------------- values and nulls --------------------------- *)

\* session === null in the handler (line 92): the absent session.
NoSession == 0
\* user: null (line 37), and a select that yields no row (line 99).
Null == [null |-> TRUE]
\* error: null (line 40).
NullError == "null"
\* a roles / permissions column that holds no array (lines 105-106).
NullList == <<Null>>
\* an error object whose message is empty or missing (falsy at line 186).
NoMessage == ""
\* no error returned by an external call.
NoError == "ok"

EmailOf(id) == IF id = 1 THEN "a@x.com" ELSE "b@x.com"
FirstNameOf(id) == IF id = 1 THEN "A" ELSE "C"
LastNameOf(id) == IF id = 1 THEN "B" ELSE "D"

\* What the provider and the store may answer with.
SignInErrors == {"Invalid login credentials", "Email not confirmed"}
SignUpErrors == {"User already registered", NoMessage}
InsertErrors == {"new row violates row-level security policy"}
SignOutErrors == {"Network request failed"}

(* ----------------------------- AuthState ------------------------------ *)

initialState ==
  [user |-> Null, isAuthenticated |-> FALSE, isLoading |-> TRUE, error |-> NullError]

\* A start case that begins from the initial state instead of the current one.
StartStateFromInitial(state) == initialState

\* case 'LOGIN_START' / 'REGISTER_START' (line 55)
StartState(state) == [state EXCEPT !.isLoading = TRUE, !.error = NullError]

\* case 'LOGIN_SUCCESS' / 'REGISTER_SUCCESS' (lines 58-64)
SuccessState(state, user) ==
  [state EXCEPT !.isLoading = FALSE, !.isAuthenticated = TRUE,
                !.user = user, !.error = NullError]

\* A reducer whose error case forgets isAuthenticated: false.
ErrorStateStillAuthenticated(state, message) ==
  [state EXCEPT !.isLoading = FALSE, !.user = Null, !.error = message]

\* A reducer whose error case forgets isLoading: false.
ErrorStateStillLoading(state, message) ==
  [state EXCEPT !.isAuthenticated = FALSE, !.user = Null, !.error = message]

\* case 'LOGIN_ERROR' / 'REGISTER_ERROR' (lines 67-73)
ErrorState(state, message) ==
  [state EXCEPT !.isLoading = FALSE, !.isAuthenticated = FALSE,
                !.user = Null, !.error = message]

\* A reducer whose logout case clears the session fields of the current state
\* instead of starting from initialState: the error survives.
LogoutStateFromCurrent(state) ==
  [state EXCEPT !.user = Null, !.isAuthenticated = FALSE, !.isLoading = FALSE]

\* case 'LOGOUT' (line 75)
LogoutState(state) == [initialState EXCEPT !.isLoading = FALSE]

\* An update that also clears the error text.
UpdateUserStateClearingError(state, user) ==
  [state EXCEPT !.user = user, !.error = NullError]

\* An update that also marks the state authenticated.
UpdateUserStateAuthenticating(state, user) ==
  [state EXCEPT !.user = user, !.isAuthenticated = TRUE]

\* case 'UPDATE_USER' (line 77)
UpdateUserState(state, user) == [state EXCEPT !.user = user]

\* case 'SET_LOADING' (line 79)
SetLoadingState(state, loading) == [state EXCEPT !.isLoading = loading]

authReducer(state, action) ==
  CASE action.type \in {"LOGIN_START", "REGISTER_START"} -> StartState(state)
    [] action.type \in {"LOGIN_SUCCESS", "REGISTER_SUCCESS"} ->
         SuccessState(state, action.payload)
    [] action.type \in {"LOGIN_ERROR", "REGISTER_ERROR"} ->
         ErrorState(state, action.payload)
    [] action.type = "LOGOUT" -> LogoutState(state)
    [] action.type = "UPDATE_USER" -> UpdateUserState(state, action.payload)
    [] action.type = "SET_LOADING" -> SetLoadingState(state, action.payload)
    [] OTHER -> state

(* --------------------------- profile rows ----------------------------- *)

DefaultRoles ==
  << [id |-> "1", name |-> "USER", description |-> "Regular user", permissions |-> <<>>] >>
DefaultPermissions ==
  << [id |-> "1", name |-> "READ", description |-> "Read access",
      resource |-> "*", action |-> "read"] >>

\* A register that seeds no role.
NewProfileRowWithoutRole(id) ==
  [id |-> id, first_name |-> FirstNameOf(id), last_name |-> LastNameOf(id),
   email |-> EmailOf(id), roles |-> <<>>, permissions |-> DefaultPermissions,
   created_at |-> "t0", updated_at |-> "t0"]

\* The row register inserts (lines 166-175); the store stamps the two times.
NewProfileRow(id) ==
  [id |-> id, first_name |-> FirstNameOf(id), last_name |-> LastNameOf(id),
   email |-> EmailOf(id), roles |-> DefaultRoles, permissions |-> DefaultPermissions,
   created_at |-> "t0", updated_at |-> "t0"]

\* A row that was there before this client started, its roles column null.
LegacyProfileRow(id) ==
  [NewProfileRow(id) EXCEPT !.roles = NullList]

\* new Date(s)
Date(s) == [date |-> s]

\* profile.roles || []
OrEmpty(list) == IF list = NullList THEN <<>> ELSE list

\* The User the handler builds from the session and the fetched row.
BuildUser(sid, profile) ==
  [id |-> sid, email |-> EmailOf(sid),
   firstName |-> profile.first_name, lastName |-> profile.last_name,
   roles |-> OrEmpty(profile.roles), permissions |-> OrEmpty(profile.permissions),
   createdAt |-> Date(profile.created_at), updatedAt |-> Date(profile.updated_at)]

\* Records a caller may hand to updateUser.
EditedUsers ==
  { [BuildUser(id, NewProfileRow(id)) EXCEPT !.firstName = "Edited"] : id \in Ids }

(* ------------------------------ state --------------------------------- *)

VARIABLES
  state,       \* the AuthState held by useReducer (line 88)
  last,        \* the last transition applied: its action, who issued it (and for which
               \* session), and isAuthenticated just before it
  session,     \* the provider's current session: an identity, or NoSession
  accounts,    \* identities the provider has signed up
  profiles,    \* the profiles table: identity -> row, or Null
  notifs,      \* session-change notifications emitted and not yet handled
  fetching,    \* handlers suspended at the profile select (line 93), by session identity
  calls,       \* the login / register / logout calls: position, outcome, what each did
  subscribed,  \* whether the onAuthStateChange subscription is active
  phase        \* "rendered" (before the effect), "mounted", "unmounted"

vars == <<state, last, session, accounts, profiles, notifs, fetching, calls, subscribed, phase>>

IdleCall ==
  [op |-> "none", pc |-> "idle", id |-> NoSession, perr |-> NoError, thrown |-> NoError,
   outcome |-> "none", trace |-> <<>>, overlapped |-> FALSE]

\* One thing a call did: a transition it issued, a provider call, a toast.
Ev(kind, name, arg) == [kind |-> kind, name |-> name, arg |-> arg]

InFlight(c) == calls[c].pc \notin {"idle", "done"}

Init ==
  /\ state = initialState
  /\ last = [action |-> [type |-> "INIT"], by |-> "init", sid |-> NoSession,
             wasAuthenticated |-> FALSE]
  /\ accounts = {1}
  /\ session \in {NoSession, 1}
  /\ profiles = [i \in Ids |-> IF i = 1 THEN LegacyProfileRow(1) ELSE Null]
  /\ notifs = <<>>
  /\ fetching = <<>>
  /\ calls = [c \in Calls |-> IdleCall]
  /\ subscribed = FALSE
  /\ phase = "rendered"

(* ----------------------------- helpers -------------------------------- *)

\* dispatch(action): the reducer runs on the current state.
DispatchFor(action, by, sid) ==
  /\ state' = authReducer(state, action)
  /\ last' = [action |-> action, by |-> by, sid |-> sid,
              wasAuthenticated |-> state.isAuthenticated]

Dispatch(action, by) == DispatchFor(action, by, NoSession)

NoDispatch == UNCHANGED <<state, last>>

Room == Len(notifs) < MaxQueued

\* The provider tells the subscriber of a session change.
Emit(s) == notifs' = Append(notifs, s)

\* A call starts, in the first unused slot: it overlaps every call still in
\* flight.
Started(c, op, id, pc, events) ==
  /\ \A d \in Calls : d < c => calls[d].pc # "idle"
  /\ calls' = [d \in Calls |->
             IF d = c
               THEN [IdleCall EXCEPT !.op = op, !.id = id, !.pc = pc, !.trace = events,
                                     !.overlapped = \E e \in Calls \ {c} : InFlight(e)]
               ELSE IF InFlight(d) THEN [calls[d] EXCEPT !.overlapped = TRUE]
               ELSE calls[d]]

\* A call settles, having done `events` in its last step.
Settled(c, outcome, perr, thrown, events) ==
  calls' = [calls EXCEPT ![c].pc = "done", ![c].outcome = outcome, ![c].perr = perr,
                         ![c].thrown = thrown, ![c].trace = calls[c].trace \o events]

RemoveAt(seq, i) == SubSeq(seq, 1, i - 1) \o SubSeq(seq, i + 1, Len(seq))

(* ------------------------- the provider component --------------------- *)

\* useEffect (lines 90-116): subscribe when the provider component mounts.
MountEffect ==
  /\ phase = "rendered"
  /\ phase' = "mounted"
  /\ subscribed' = TRUE
  /\ UNCHANGED <<state, last, session, accounts, profiles, notifs, fetching, calls>>

\* A cleanup that forgets to unsubscribe.
UnmountLeavingSubscription ==
  /\ phase = "mounted"
  /\ phase' = "unmounted"
  /\ UNCHANGED <<state, last, session, accounts, profiles, notifs, fetching, calls,
                 subscribed>>

\* The effect's cleanup (lines 117-119): unsubscribe when it unmounts.
Unmount ==
  /\ phase = "mounted"
  /\ phase' = "unmounted"
  /\ subscribed' = FALSE
  /\ UNCHANGED <<state, last, session, accounts, profiles, notifs, fetching, calls>>

(* ------------------------- session synchronizer ----------------------- *)

\* The provider reports its current session unasked (the restored session at
\* start-up, a token refresh).
ProviderReports ==
  /\ phase = "mounted" /\ subscribed /\ Room
  /\ Emit(session)
  /\ UNCHANGED <<state, last, session, accounts, profiles, fetching, calls, subscribed, phase>>

\* The provider's session ends on its own (expiry, sign-out elsewhere).
SessionExpires ==
  /\ phase = "mounted" /\ subscribed /\ Room
  /\ session # NoSession
  /\ session' = NoSession
  /\ Emit(NoSession)
  /\ UNCHANGED <<state, last, accounts, profiles, fetching, calls, subscribed, phase>>

\* A handler that skips the logout when the state is not authenticated.
HandleNotificationLogoutIfAuthenticated ==
  /\ phase = "mounted" /\ subscribed
  /\ notifs # <<>>
  /\ notifs' = Tail(notifs)
  /\ IF Head(notifs) # NoSession
       THEN /\ Len(fetching) < MaxFetching
            /\ fetching' = Append(fetching, Head(notifs))
            /\ NoDispatch
       ELSE /\ IF state.isAuthenticated
                 THEN Dispatch([type |-> "LOGOUT"], "sync")
                 ELSE NoDispatch
            /\ UNCHANGED fetching
  /\ UNCHANGED <<session, accounts, profiles, calls, subscribed, phase>>

\* The handler runs up to its first await (lines 91-97, 112-114).
HandleNotification ==
  /\ phase = "mounted" /\ subscribed
  /\ notifs # <<>>
  /\ notifs' = Tail(notifs)
  /\ IF Head(notifs) # NoSession
       THEN /\ Len(fetching) < MaxFetching
            /\ fetching' = Append(fetching, Head(notifs))
            /\ NoDispatch
       ELSE /\ Dispatch([type |-> "LOGOUT"], "sync")
            /\ UNCHANGED fetching
  /\ UNCHANGED <<session, accounts, profiles, calls, subscribed, phase>>

\* A handler that reports a missing profile as a login error.
FetchReturnsReportingMissing ==
  /\ phase = "mounted"
  /\ \E i \in 1..Len(fetching) :
       \E profile \in {Null, profiles[fetching[i]]} :
         /\ fetching' = RemoveAt(fetching, i)
         /\ IF profile # Null
              THEN DispatchFor([type |-> "LOGIN_SUCCESS",
                                payload |-> BuildUser(fetching[i], profile)],
                               "sync", fetching[i])
              ELSE DispatchFor([type |-> "LOGIN_ERROR", payload |-> "Profile not found"],
                               "sync", fetching[i])
  /\ UNCHANGED <<session, accounts, profiles, notifs, calls, subscribed, phase>>

\* The select returns and the handler finishes (lines 93-111).  The store
\* answers with the row, or with no data (no such row, or the query failed).
FetchReturns ==
  /\ phase = "mounted"
  /\ \E i \in 1..Len(fetching) :
       \E profile \in {Null, profiles[fetching[i]]} :
         /\ fetching' = RemoveAt(fetching, i)
         /\ IF profile # Null
              THEN DispatchFor([type |-> "LOGIN_SUCCESS",
                                payload |-> BuildUser(fetching[i], profile)],
                               "sync", fetching[i])
              ELSE NoDispatch
  /\ UNCHANGED <<session, accounts, profiles, notifs, calls, subscribed, phase>>

(* -------------------------------- login ------------------------------- *)

\* login is called: LOGIN_START, then the await of signInWithPassword
\* (lines 122-129).
Login(c, id) ==
  /\ phase = "mounted"
  /\ calls[c].pc = "idle"
  /\ Dispatch([type |-> "LOGIN_START"], "login")
  /\ Started(c, "login", id, "signIn", <<Ev("dispatch", "LOGIN_START", NullError)>>)
  /\ UNCHANGED <<session, accounts, profiles, notifs, fetching, subscribed, phase>>

\* A login that, once verified, builds the user and issues LOGIN_SUCCESS
\* itself instead of leaving it to the session handler.
LoginVerifiedDispatching(c) ==
  /\ phase = "mounted"
  /\ calls[c].op = "login" /\ calls[c].pc = "signIn"
  /\ calls[c].id \in accounts
  /\ Room
  /\ session' = calls[c].id
  /\ Emit(calls[c].id)
  /\ Dispatch([type |-> "LOGIN_SUCCESS",
               payload |-> BuildUser(calls[c].id, NewProfileRow(calls[c].id))], "login")
  /\ Settled(c, "resolved", NoError, NoError, <<Ev("dispatch", "LOGIN_SUCCESS", NullError)>>)
  /\ UNCHANGED <<accounts, profiles, fetching, subscribed, phase>>

\* signInWithPassword returns no error: the provider holds a session for the
\* identity and says so; login itself does nothing more (line 131).
LoginVerified(c) ==
  /\ phase = "mounted"
  /\ calls[c].op = "login" /\ calls[c].pc = "signIn"
  /\ calls[c].id \in accounts
  /\ Room
  /\ session' = calls[c].id
  /\ Emit(calls[c].id)
  /\ NoDispatch
  /\ Settled(c, "resolved", NoError, NoError, <<>>)
  /\ UNCHANGED <<accounts, profiles, fetching, subscribed, phase>>

\* A login that puts the provider's own message into the state.
LoginRefusedWithDetail(c) ==
  /\ phase = "mounted"
  /\ calls[c].op = "login" /\ calls[c].pc = "signIn"
  /\ \E e \in SignInErrors :
       /\ Dispatch([type |-> "LOGIN_ERROR", payload |-> e], "login")
       /\ Settled(c, "rejected", e, e, <<Ev("dispatch", "LOGIN_ERROR", e)>>)
  /\ UNCHANGED <<session, accounts, profiles, notifs, fetching, subscribed, phase>>

\* signInWithPassword returns an error: it is thrown, caught, replaced in the
\* state by the fixed message, and thrown again (lines 131-135).
LoginRefused(c) ==
  /\ phase = "mounted"
  /\ calls[c].op = "login" /\ calls[c].pc = "signIn"
  /\ \E e \in SignInErrors :
       /\ Dispatch([type |-> "LOGIN_ERROR", payload |-> "Invalid credentials"],
                   "login")
       /\ Settled(c, "rejected", e, e,
                  <<Ev("dispatch", "LOGIN_ERROR", "Invalid credentials")>>)
  /\ UNCHANGED <<session, accounts, profiles, notifs, fetching, subscribed, phase>>

(* ------------------------------- register ----------------------------- *)

\* A catch block that always reports the generic message.
ErrorMessageAlwaysGeneric(message) == "Registration failed"

\* error.message || 'Registration failed' (line 186)
ErrorMessage(message) == IF message = NoMessage THEN "Registration failed" ELSE message

\* The catch block of register (lines 185-190), the error thrown being `thrown`
\* and the failure the provider or store answered with being `perr`.
RegisterCatch(c, perr, thrown, before) ==
  /\ Dispatch([type |-> "REGISTER_ERROR", payload |-> ErrorMessage(thrown)],
              "register")
  /\ Settled(c, "rejected", perr, thrown,
             before \o <<Ev("dispatch", "REGISTER_ERROR", ErrorMessage(thrown)),
                         Ev("toast", "error", ErrorMessage(thrown))>>)

\* register is called: REGISTER_START, then the await of signUp (lines 138-152).
Register(c, id) ==
  /\ phase = "mounted"
  /\ calls[c].pc = "idle"
  /\ Dispatch([type |-> "REGISTER_START"], "register")
  /\ Started(c, "register", id, "signUp", <<Ev("dispatch", "REGISTER_START", NullError)>>)
  /\ UNCHANGED <<session, accounts, profiles, notifs, fetching, subscribed, phase>>

\* signUp returns an error (lines 154-157).
SignUpRefused(c) ==
  /\ phase = "mounted"
  /\ calls[c].op = "register" /\ calls[c].pc = "signUp"
  /\ \E e \in SignUpErrors : RegisterCatch(c, e, e, <<>>)
  /\ UNCHANGED <<session, accounts, profiles, notifs, fetching, subscribed, phase>>

\* signUp returns neither an error nor a user (lines 159-161).
SignUpNoUser(c) ==
  /\ phase = "mounted"
  /\ calls[c].op = "register" /\ calls[c].pc = "signUp"
  /\ RegisterCatch(c, NoError, "No user data returned from signup", <<>>)
  /\ UNCHANGED <<session, accounts, profiles, notifs, fetching, subscribed, phase>>

\* signUp returns the new identity; the provider may open a session for it at
\* once (and then says so) or wait for the address to be confirmed.  register
\* goes on to the insert (lines 163-175).
SignUpAccepted(c) ==
  /\ phase = "mounted"
  /\ calls[c].op = "register" /\ calls[c].pc = "signUp"
  /\ calls[c].id \notin accounts
  /\ accounts' = accounts \cup {calls[c].id}
  /\ \/ /\ Room
        /\ session' = calls[c].id
        /\ Emit(calls[c].id)
     \/ UNCHANGED <<session, notifs>>
  /\ calls' = [calls EXCEPT ![c].pc = "insert",
                            ![c].trace = @ \o <<Ev("call", "insert", NoError)>>]
  /\ NoDispatch
  /\ UNCHANGED <<profiles, fetching, subscribed, phase>>

\* The insert returns no error: the success toast (line 184).
InsertAccepted(c) ==
  /\ phase = "mounted"
  /\ calls[c].op = "register" /\ calls[c].pc = "insert"
  /\ profiles[calls[c].id] = Null
  /\ profiles' = [profiles EXCEPT ![calls[c].id] = NewProfileRow(calls[c].id)]
  /\ NoDispatch
  /\ Settled(c, "resolved", NoError, NoError,
             <<Ev("toast", "success", "Registration successful! You can now log in.")>>)
  /\ UNCHANGED <<session, accounts, notifs, fetching, subscribed, phase>>

\* The insert returns an error: register awaits the provider's signOut before
\* it throws (lines 177-180).
InsertRefused(c) ==
  /\ phase = "mounted"
  /\ calls[c].op = "register" /\ calls[c].pc = "insert"
  /\ \E e \in InsertErrors :
       calls' = [calls EXCEPT ![c].pc = "cleanup", ![c].perr = e,
                              ![c].trace = @ \o <<Ev("call", "signOut", NoError)>>]
  /\ NoDispatch
  /\ UNCHANGED <<session, accounts, profiles, notifs, fetching, subscribed, phase>>

\* The compensating signOut resolves: the insert's error is thrown (line 181).
CleanupDone(c) ==
  /\ phase = "mounted"
  /\ calls[c].op = "register" /\ calls[c].pc = "cleanup"
  /\ Room
  /\ session' = NoSession
  /\ Emit(NoSession)
  /\ RegisterCatch(c, calls[c].perr, calls[c].perr, <<>>)
  /\ UNCHANGED <<accounts, profiles, fetching, subscribed, phase>>

\* The compensating signOut rejects: its own error reaches the catch block,
\* and the insert's error is never thrown.
CleanupFailed(c) ==
  /\ phase = "mounted"
  /\ calls[c].op = "register" /\ calls[c].pc = "cleanup"
  /\ \E e \in SignOutErrors : RegisterCatch(c, calls[c].perr, e, <<>>)
  /\ UNCHANGED <<session, accounts, profiles, notifs, fetching, subscribed, phase>>

(* -------------------------------- logout ------------------------------ *)

\* logout is called: the await of signOut (lines 193-195).
Logout(c) ==
  /\ phase = "mounted"
  /\ calls[c].pc = "idle"
  /\ Started(c, "logout", NoSession, "signOut", <<Ev("call", "signOut", NoError)>>)
  /\ NoDispatch
  /\ UNCHANGED <<session, accounts, profiles, notifs, fetching, subscribed, phase>>

\* A logout that leaves the reset to the session handler's SIGNED_OUT
\* notification.
LogoutSucceedsWithoutLogout(c) ==
  /\ phase = "mounted"
  /\ calls[c].op = "logout" /\ calls[c].pc = "signOut"
  /\ Room
  /\ session' = NoSession
  /\ Emit(NoSession)
  /\ NoDispatch
  /\ Settled(c, "resolved", NoError, NoError,
             <<Ev("toast", "success", "Successfully logged out")>>)
  /\ UNCHANGED <<accounts, profiles, fetching, subscribed, phase>>

\* signOut resolves: LOGOUT and the success toast (lines 196-197).
LogoutSucceeds(c) ==
  /\ phase = "mounted"
  /\ calls[c].op = "logout" /\ calls[c].pc = "signOut"
  /\ Room
  /\ session' = NoSession
  /\ Emit(NoSession)
  /\ Dispatch([type |-> "LOGOUT"], "logout")
  /\ Settled(c, "resolved", NoError, NoError,
             <<Ev("dispatch", "LOGOUT", NullError),
               Ev("toast", "success", "Successfully logged out")>>)
  /\ UNCHANGED <<accounts, profiles, fetching, subscribed, phase>>

\* A logout that records its failure in the state.
LogoutFailsIntoState(c) ==
  /\ phase = "mounted"
  /\ calls[c].op = "logout" /\ calls[c].pc = "signOut"
  /\ \E e \in SignOutErrors :
       Settled(c, "resolved", e, NoError, <<Ev("toast", "error", "Failed to log out")>>)
  /\ Dispatch([type |-> "LOGIN_ERROR", payload |-> "Failed to log out"], "logout")
  /\ UNCHANGED <<session, accounts, profiles, notifs, fetching, subscribed, phase>>

\* signOut rejects: the failure toast only (lines 198-200).
LogoutFails(c) ==
  /\ phase = "mounted"
  /\ calls[c].op = "logout" /\ calls[c].pc = "signOut"
  /\ \E e \in SignOutErrors :
       Settled(c, "resolved", e, NoError, <<Ev("toast", "error", "Failed to log out")>>)
  /\ NoDispatch
  /\ UNCHANGED <<session, accounts, profiles, notifs, fetching, subscribed, phase>>

(* ------------------------------ updateUser ---------------------------- *)

\* updateUser(user) (lines 203-205).
UpdateUser(user) ==
  /\ phase = "mounted"
  /\ Dispatch([type |-> "UPDATE_USER", payload |-> user], "updateUser")
  /\ UNCHANGED <<session, accounts, profiles, notifs, fetching, calls, subscribed, phase>>

(* ---------------------------- specification --------------------------- *)

Next ==
  \/ MountEffect
  \/ Unmount
  \/ ProviderReports
  \/ SessionExpires
  \/ HandleNotification
  \/ FetchReturns
  \/ \E c \in Calls, id \in Ids : Login(c, id)
  \/ \E c \in Calls : LoginVerified(c)
  \/ \E c \in Calls : LoginRefused(c)
  \/ \E c \in Calls, id \in Ids : Register(c, id)
  \/ \E c \in Calls : SignUpRefused(c)
  \/ \E c \in Calls : SignUpNoUser(c)
  \/ \E c \in Calls : SignUpAccepted(c)
  \/ \E c \in Calls : InsertAccepted(c)
  \/ \E c \in Calls : InsertRefused(c)
  \/ \E c \in Calls : CleanupDone(c)
  \/ \E c \in Calls : CleanupFailed(c)
  \/ \E c \in Calls : Logout(c)
  \/ \E c \in Calls : LogoutSucceeds(c)
  \/ \E c \in Calls : LogoutFails(c)
  \/ \E user \in EditedUsers : UpdateUser(user)

Spec == Init /\ [][Next]_vars

(* ---------------------- two overlapping logout calls ------------------ *)

\* The AuthStates the client can be in with no call in flight and no
\* notification pending: after start-up, after a restored session was loaded,
\* after updateUser, after the session ended.
QuietStates ==
  { initialState,
    [initialState EXCEPT !.isLoading = FALSE],
    SuccessState(initialState, BuildUser(1, LegacyProfileRow(1))) }
  \cup { UpdateUserState(initialState, user) : user \in EditedUsers }
  \cup { UpdateUserState(SuccessState(initialState, BuildUser(1, LegacyProfileRow(1))), user) :
           user \in EditedUsers }

LogoutRaceInit ==
  /\ state \in QuietStates
  /\ last = [action |-> [type |-> "INIT"], by |-> "init", sid |-> NoSession,
             wasAuthenticated |-> FALSE]
  /\ accounts = {1}
  /\ session \in {NoSession, 1}
  /\ profiles = [i \in Ids |-> IF i = 1 THEN LegacyProfileRow(1) ELSE Null]
  /\ notifs = <<>>
  /\ fetching = <<>>
  /\ calls = [c \in Calls |-> IdleCall]
  /\ subscribed = TRUE
  /\ phase = "mounted"

\* Only logout is called; the handler takes the notifications signOut causes.
LogoutRaceNext ==
  \/ \E c \in Calls : Logout(c)
  \/ \E c \in Calls : LogoutSucceeds(c)
  \/ \E c \in Calls : LogoutFails(c)
  \/ HandleNotification

LogoutRaceSpec == LogoutRaceInit /\ [][LogoutRaceNext]_vars

(* ------------------------ reading the call records ------------------- *)

IsDispatch(e) == e.kind = "dispatch"
IsToast(e) == e.kind = "toast"
IsProviderCall(e) == e.kind = "call"

\* The transitions a call issued, its toasts, and the provider and store calls
\* it made after its first one, each in the order they happened.
Dispatched(c) == SelectSeq(calls[c].trace, IsDispatch)
Toasts(c) == SelectSeq(calls[c].trace, IsToast)
FurtherCalls(c) == SelectSeq(calls[c].trace, IsProviderCall)

Done(c, op) == calls[c].op = op /\ calls[c].pc = "done"

LogoutReset ==
  [user |-> Null, isAuthenticated |-> FALSE, isLoading |-> FALSE, error |-> NullError]

(* -------------------------------- claims ------------------------------ *)

\* C1: in every reachable state, under every interleaving of login, register,
\* logout, updateUser and session-change notifications, the four fields are
\* those of a whole AuthState, and isAuthenticated = true never holds together
\* with an absent user.
C1_NoTornState ==
  /\ DOMAIN state = {"user", "isAuthenticated", "isLoading", "error"}
  /\ state.isAuthenticated \in BOOLEAN
  /\ state.isLoading \in BOOLEAN
  /\ state.isAuthenticated => state.user # Null

\* An authenticated state with a user, while one call is in flight, another
\* has failed and a notification handler is waiting for its profile.
C1_Witness ==
  /\ state.isAuthenticated /\ state.user # Null
  /\ \E c, d \in Calls : InFlight(c) /\ calls[d].outcome = "rejected"
  /\ fetching # <<>>

\* C2: right after a login-error or register-error transition, whatever the
\* state was before, isAuthenticated = false, user is absent, isLoading = false
\* and error is the message the transition carried.
C2_AfterError ==
  last.action.type \in {"LOGIN_ERROR", "REGISTER_ERROR"} =>
    state = [user |-> Null, isAuthenticated |-> FALSE, isLoading |-> FALSE,
             error |-> last.action.payload]

\* A register-error applied to an authenticated state.
C2_Witness ==
  /\ last.action.type = "REGISTER_ERROR"
  /\ last.wasAuthenticated
  /\ state.error = "User already registered"

\* C3: right after a logout transition, from any prior state, the state is the
\* initial state except isLoading = false.
C3_AfterLogout ==
  last.action.type = "LOGOUT" =>
    /\ state = [initialState EXCEPT !.isLoading = FALSE]
    /\ state = LogoutReset

\* A logout call's LOGOUT applied to an authenticated state.
C3_Witness ==
  /\ last.action.type = "LOGOUT"
  /\ last.by = "logout"
  /\ last.wasAuthenticated

\* C4: a login whose credentials are verified issues login-start and nothing
\* else; login-success is issued only by the session handler, for a session
\* whose profile row was fetched, and leaves isLoading = false,
\* isAuthenticated = true, error absent and user the record built from that
\* session's identity and row.  (So the state need not be authenticated when
\* login resolves.)
C4_LoginSuccessBySync ==
  /\ \A c \in Calls :
       (Done(c, "login") /\ calls[c].perr = NoError) =>
         /\ calls[c].outcome = "resolved"
         /\ Dispatched(c) = <<Ev("dispatch", "LOGIN_START", NullError)>>
         /\ Toasts(c) = <<>>
  /\ last.action.type # "REGISTER_SUCCESS"
  /\ last.action.type = "LOGIN_SUCCESS" =>
       /\ last.by = "sync"
       /\ last.sid \in Ids
       /\ profiles[last.sid] # Null
       /\ state.isLoading = FALSE
       /\ state.isAuthenticated = TRUE
       /\ state.error = NullError
       /\ state.user = last.action.payload
       /\ state.user.id = last.sid
       /\ state.user.email = profiles[last.sid].email
       /\ state.user.firstName = profiles[last.sid].first_name
       /\ state.user.lastName = profiles[last.sid].last_name
       /\ state.user.permissions = profiles[last.sid].permissions

\* A login for b@x.com has resolved, and the session handler has since issued
\* login-success for that identity on a state that was not authenticated.
C4_Witness ==
  \E c \in Calls :
    /\ Done(c, "login") /\ calls[c].outcome = "resolved" /\ calls[c].id = 2
    /\ last.action.type = "LOGIN_SUCCESS" /\ last.sid = 2
    /\ ~last.wasAuthenticated
    /\ state.isAuthenticated /\ state.user.firstName = "C"

\* C5: when the provider refuses the credentials, login issues login-start,
\* then login-error with exactly "Invalid credentials" whatever the provider's
\* error was, and rejects with the provider's error.
C5_LoginRefusedGeneric ==
  /\ \A c \in Calls :
       (Done(c, "login") /\ calls[c].perr # NoError) =>
         /\ Dispatched(c) = <<Ev("dispatch", "LOGIN_START", NullError),
                              Ev("dispatch", "LOGIN_ERROR", "Invalid credentials")>>
         /\ calls[c].outcome = "rejected"
         /\ calls[c].thrown = calls[c].perr
         /\ Toasts(c) = <<>>
  /\ (last.action.type = "LOGIN_ERROR" /\ last.by = "login") =>
       state.error = "Invalid credentials"

\* A login refused with "Email not confirmed" has left "Invalid credentials"
\* in the state.
C5_Witness ==
  \E c \in Calls :
    /\ Done(c, "login") /\ calls[c].perr = "Email not confirmed"
    /\ calls[c].outcome = "rejected"
    /\ last.action.type = "LOGIN_ERROR"
    /\ state.error = "Invalid credentials"

NotToast(e) == e.kind # "toast"

\* C6: when sign-up succeeds and the profile insertion fails, signOut is called
\* on the provider before any error transition, register-error then carries
\* the insertion failure's message, and the call rejects with that message.
C6_InsertFailureReported ==
  \A c \in Calls :
    (Done(c, "register") /\ calls[c].perr \in InsertErrors) =>
      /\ SelectSeq(calls[c].trace, NotToast) =
           <<Ev("dispatch", "REGISTER_START", NullError),
             Ev("call", "insert", NoError),
             Ev("call", "signOut", NoError),
             Ev("dispatch", "REGISTER_ERROR", calls[c].perr)>>
      /\ calls[c].outcome = "rejected"
      /\ calls[c].thrown = calls[c].perr

\* C7: when sign-up and insertion both succeed, register issues register-start
\* and nothing else, emits the success toast, and the profiles table holds a
\* row keyed by the new identity with exactly one USER role (id "1") and
\* exactly one READ permission (id "1", resource "*", action "read").
C7_RegisterSuccess ==
  \A c \in Calls :
    (Done(c, "register") /\ calls[c].outcome = "resolved") =>
      /\ Dispatched(c) = <<Ev("dispatch", "REGISTER_START", NullError)>>
      /\ Toasts(c) = <<Ev("toast", "success", "Registration successful! You can now log in.")>>
      /\ profiles[calls[c].id] # Null
      /\ profiles[calls[c].id].id = calls[c].id
      /\ Len(profiles[calls[c].id].roles) = 1
      /\ profiles[calls[c].id].roles[1].id = "1"
      /\ profiles[calls[c].id].roles[1].name = "USER"
      /\ Len(profiles[calls[c].id].permissions) = 1
      /\ profiles[calls[c].id].permissions[1].id = "1"
      /\ profiles[calls[c].id].permissions[1].name = "READ"
      /\ profiles[calls[c].id].permissions[1].resource = "*"
      /\ profiles[calls[c].id].permissions[1].action = "read"

\* A register has resolved; the state it left is loading and unauthenticated.
C7_Witness ==
  \E c \in Calls :
    /\ Done(c, "register") /\ calls[c].outcome = "resolved"
    /\ last.action.type = "REGISTER_START"
    /\ ~state.isAuthenticated /\ state.isLoading
    /\ profiles[calls[c].id] # Null

\* C8 as stated: when sign-up fails, register-error carries the provider's
\* message and the call rejects; when sign-up returns no identity,
\* register-error carries "No user data returned from signup" and the call
\* rejects.  In both cases register calls neither insert nor signOut.
C8_SignUpFailureVerbatim ==
  \A c \in Calls :
    /\ (Done(c, "register") /\ calls[c].perr \in SignUpErrors) =>
         /\ Dispatched(c) = <<Ev("dispatch", "REGISTER_START", NullError),
                              Ev("dispatch", "REGISTER_ERROR", calls[c].perr)>>
         /\ calls[c].outcome = "rejected"
         /\ FurtherCalls(c) = <<>>
    /\ (Done(c, "register") /\ calls[c].perr = NoError /\ calls[c].outcome = "rejected") =>
         /\ Dispatched(c) =
              <<Ev("dispatch", "REGISTER_START", NullError),
                Ev("dispatch", "REGISTER_ERROR", "No user data returned from signup")>>
         /\ FurtherCalls(c) = <<>>

\* C8, amended: when sign-up fails, register-error carries the provider's
\* message, or "Registration failed" when the provider's error has no message,
\* and the call rejects with the provider's error; when sign-up returns no
\* identity, register-error carries "No user data returned from signup" and the
\* call rejects.  In both cases register calls neither insert nor signOut.
C8_SignUpFailure ==
  \A c \in Calls :
    /\ (Done(c, "register") /\ calls[c].perr \in SignUpErrors) =>
         /\ Dispatched(c) =
              <<Ev("dispatch", "REGISTER_START", NullError),
                Ev("dispatch", "REGISTER_ERROR",
                   IF calls[c].perr = "" THEN "Registration failed" ELSE calls[c].perr)>>
         /\ calls[c].outcome = "rejected"
         /\ calls[c].thrown = calls[c].perr
         /\ FurtherCalls(c) = <<>>
    /\ (Done(c, "register") /\ calls[c].perr = NoError /\ calls[c].outcome = "rejected") =>
         /\ Dispatched(c) =
              <<Ev("dispatch", "REGISTER_START", NullError),
                Ev("dispatch", "REGISTER_ERROR", "No user data returned from signup")>>
         /\ calls[c].thrown = "No user data returned from signup"
         /\ FurtherCalls(c) = <<>>

\* A sign-up refused with an error that has no message: the state's error is
\* "Registration failed".
C8_Witness ==
  \E c \in Calls :
    /\ Done(c, "register") /\ calls[c].perr = NoMessage
    /\ last.action.type = "REGISTER_ERROR"
    /\ state.error = "Registration failed"
    /\ profiles[calls[c].id] = Null

Quiet ==
  /\ phase = "mounted"
  /\ notifs = <<>>
  /\ fetching = <<>>
  /\ \A c \in Calls : ~InFlight(c)

\* C11: handling a session-present notification whose profile fetch returns no
\* row issues no transition: neither the handler's first part nor the return
\* of a select for an identity without a row changes any of the four fields,
\* whatever the state is.
C11_MissingProfileNoTransition ==
  /\ [][(notifs # <<>> /\ Len(notifs') < Len(notifs) /\ Head(notifs) # NoSession) =>
          (state' = state /\ last' = last)]_vars
  /\ [][\A i \in 1..Len(fetching) :
          (fetching' = RemoveAt(fetching, i) /\ profiles[fetching[i]] = Null) =>
            (state' = state /\ last' = last)]_vars

\* A login for b@x.com, an identity with no profile row, has resolved; its
\* notification has been handled and its select has returned, and the state
\* is still what login-start left.
C11_Witness ==
  /\ Quiet
  /\ \E c \in Calls : Done(c, "login") /\ calls[c].outcome = "resolved" /\ calls[c].id = 2
  /\ session = 2 /\ profiles[2] = Null
  /\ last.action.type = "LOGIN_START"
  /\ state = StartState(initialState)

\* C12: every session-absent notification, when handled, issues the logout
\* transition, whatever the state and whatever was notified before, and
\* starts no profile fetch.
C12_AbsentAlwaysLogout ==
  [][(notifs # <<>> /\ Len(notifs') < Len(notifs) /\ Head(notifs) = NoSession) =>
       /\ state' = LogoutReset
       /\ last'.action.type = "LOGOUT" /\ last'.by = "sync"
       /\ last'.wasAuthenticated = state.isAuthenticated
       /\ fetching' = fetching]_vars

\* A session-absent notification was handled on a state that was not
\* authenticated and carried a login error: the handler still issued logout.
C12_Witness ==
  /\ last.action.type = "LOGOUT" /\ last.by = "sync"
  /\ ~last.wasAuthenticated
  /\ \E c \in Calls : Done(c, "login") /\ calls[c].outcome = "rejected"
  /\ state = LogoutReset

StartTypes == {"LOGIN_START", "REGISTER_START"}
SuccessTypes == {"LOGIN_SUCCESS", "REGISTER_SUCCESS"}
ErrorTypes == {"LOGIN_ERROR", "REGISTER_ERROR"}

\* C13 as stated: once error holds a message, only login-start or
\* register-start changes it.
C13_ErrorKeptUntilStart ==
  [][(state.error # NullError /\ state'.error # state.error) =>
       last'.action.type \in StartTypes]_vars

\* C13: once error holds a message, it keeps that message in every step
\* except a start, success or logout transition, which clears it, and another
\* error transition, which replaces it by that transition's message;
\* update-user and the handling of a notification that dispatches nothing
\* leave it alone.
C13_ErrorKept ==
  [][state.error # NullError =>
       \/ state'.error = state.error
       \/ /\ last'.action.type \in StartTypes \cup SuccessTypes \cup {"LOGOUT"}
          /\ state'.error = NullError
       \/ /\ last'.action.type \in ErrorTypes
          /\ state'.error = last'.action.payload]_vars

\* The message of a refused login is still there after updateUser.
C13_Witness ==
  /\ \E c \in Calls : Done(c, "login") /\ calls[c].outcome = "rejected"
  /\ last.action.type = "UPDATE_USER"
  /\ state.error = "Invalid credentials"
  /\ state.user \in EditedUsers

\* C14: login-start and register-start set isLoading = true and error =
\* absent and leave user and isAuthenticated as they were, also when the
\* state is authenticated.
C14_StartKeepsIdentity ==
  /\ [][\A c \in Calls :
          (calls[c].pc = "idle" /\ calls'[c].op \in {"login", "register"}) =>
            /\ state' = [user |-> state.user,
                         isAuthenticated |-> state.isAuthenticated,
                         isLoading |-> TRUE, error |-> NullError]
            /\ last'.action.type =
                 (IF calls'[c].op = "login" THEN "LOGIN_START" ELSE "REGISTER_START")]_vars
  /\ [](last.action.type \in StartTypes =>
          /\ state.isLoading /\ state.error = NullError
          /\ state.isAuthenticated = last.wasAuthenticated
          /\ (state.isAuthenticated => state.user # Null))

\* register was called on an authenticated state: still authenticated, with
\* its user, and loading.
C14_Witness ==
  /\ last.action.type = "REGISTER_START" /\ last.wasAuthenticated
  /\ state.isAuthenticated /\ state.user # Null
  /\ state.isLoading /\ state.error = NullError

\* C15: updateUser(u) sets user = u and leaves isAuthenticated, isLoading and
\* error unchanged, calls neither the provider nor the store, and applying it
\* twice with the same u gives the state of applying it once, from any state.
C15_UpdateUser ==
  /\ [][(last' # last /\ last'.action.type = "UPDATE_USER") =>
          /\ state' = [user |-> last'.action.payload,
                       isAuthenticated |-> state.isAuthenticated,
                       isLoading |-> state.isLoading, error |-> state.error]
          /\ UNCHANGED <<session, accounts, profiles, notifs, fetching, calls>>]_vars
  /\ [](\A u \in EditedUsers :
          LET a == [type |-> "UPDATE_USER", payload |-> u]
              once == authReducer(state, a)
          IN  /\ once = [user |-> u, isAuthenticated |-> state.isAuthenticated,
                         isLoading |-> state.isLoading, error |-> state.error]
              /\ authReducer(once, a) = once)

\* updateUser was applied to an authenticated state while a call was in
\* flight.
C15_Witness ==
  /\ last.action.type = "UPDATE_USER" /\ last.by = "updateUser"
  /\ state.user \in EditedUsers
  /\ state.isAuthenticated /\ state.isLoading
  /\ \E c \in Calls : InFlight(c)

\* C16: the subscription is acquired once, when the effect runs, and released
\* when it is torn down; it is active exactly while the provider is mounted,
\* and after teardown it is never active again.
C16_Subscription ==
  /\ [](subscribed <=> phase = "mounted")
  /\ [][(~subscribed /\ subscribed') => (phase = "rendered" /\ phase' = "mounted")]_vars
  /\ [][(subscribed /\ ~subscribed') => (phase = "mounted" /\ phase' = "unmounted")]_vars
  /\ [][phase # "rendered" => phase' # "rendered"]_vars
  /\ [][phase = "unmounted" => (phase' = "unmounted" /\ ~subscribed')]_vars

\* Torn down while authenticated with a notification still undelivered: the
\* subscription is released.
C16_Witness ==
  /\ phase = "unmounted" /\ ~subscribed
  /\ notifs # <<>>
  /\ state.isAuthenticated

\* C17: whenever nothing is in flight, isAuthenticated = true implies that the
\* provider has a session; a handler whose profile select returns after a
\* later session-absent notification was handled does not leave the state
\* authenticated.
C17_AuthenticatedHasSession ==
  (Quiet /\ state.isAuthenticated) => session # NoSession

\* C18: once a login or register call has been made and every call has
\* completed and every notification handler has finished, isLoading is false,
\* also after a successful register and after a session-present notification
\* whose profile row is missing.
C18_LoadingEnds ==
  (Quiet /\ \E c \in Calls : Done(c, "login") \/ Done(c, "register")) =>
    ~state.isLoading

\* C19: whenever nothing is in flight and the provider has a session whose
\* profile row exists, a login or register that failed on an authenticated
\* state has not left the client unauthenticated.
C19_ValidSessionAuthenticated ==
  ( /\ Quiet
    /\ session # NoSession /\ profiles[session] # Null
    /\ last.action.type \in ErrorTypes /\ last.wasAuthenticated )
  => state.isAuthenticated

\* C20: in every reachable state user is present only when isAuthenticated is
\* true, also after updateUser was called on an unauthenticated state.
C20_UserOnlyWhenAuthenticated ==
  state.user # Null => state.isAuthenticated

====
